---- MODULE Spec2Model ----
(***************************************************************************)
(* Model of the storage engine of src/global-snippets.js: StorageManager   *)
(* (cache, localStorage, remote API, syncInProgress) and the UIManager     *)
(* handlers that write to it (import, clear-all, version-limit setting).   *)
(*                                                                         *)
(* JavaScript runs one task at a time, so a step of the model is the code  *)
(* an asynchronous call runs between two network awaits:                   *)
(*   - from the call to its first fetch() (the GET of fetchFromAPI when    *)
(*     the cache is null, else the PUT of saveToAPI),                      *)
(*   - from the answer of the GET to the PUT,                              *)
(*   - from the answer of the PUT to the return of the call.               *)
(* An await on an already settled promise only yields to microtasks of the *)
(* same task and is not a step boundary.                                   *)
(*                                                                         *)
(* Specifications: Spec (a caller that awaits each call), SpecInterleaved   *)
(* (two callers whose calls interleave at the awaits), SpecAnswered (the   *)
(* same, every PUT answered in the end), SpecReturning (a session that     *)
(* finds a text stored by an earlier one).                                 *)
(*                                                                         *)
(* Not modelled: the timestamp field of a version (a wall-clock reading),  *)
(* the DOM, the CSRF cookie.                                               *)
(***************************************************************************)
EXTENDS Integers, Sequences, FiniteSets, TLC

\* ------------------------------------------------------------------ bounds
MaxVersionLimit == 2

\* The number of calls and settings changes a behaviour makes.
MaxCalls == 4

\* The number of calls a behaviour of interleaved calls makes.
MaxInterleaved == 3

\* The number of calls a session makes that finds a stored text.
MaxReturning == 3

\* The number of mutation events on the watched regions.
MaxEvents == 3

\* The number of items in a remote response.
MaxItems == 2

\* CONFIG.autoSaveDelay (2000 ms), in units of one second.
AutoSaveDelay == 2

\* ------------------------------------------------------------ value domains
Ids == {"a", "b"}
Htmls == {"A", "B"}
Procs == {"p1", "p2"}

\* this.cache = null: a value that is no collection.
NULL == [null |-> TRUE]
NoAuthor == "undefined"
NoId == "-"

\* The author every caller of saveSnippet in the editor passes (line 1044).
AuthorInputs == {"current-user"}

\* The values the version-limit input can be set to (min="1").
VersionLimits == 1..MaxVersionLimit

\* Indices a caller may ask restoreVersion for: valid, negative, too large.
VersionArgs == (-1)..MaxVersionLimit

\* {}: the collection with no snippet. A collection is a function from the
\* ids it holds to their snippets.
EmptyCollection == [id \in {} |-> 0]

Version(n, html, author) == [version |-> n, html |-> html, author |-> author]

Snippet(id, versions, cur) == [id |-> id, versions |-> versions, currentVersion |-> cur]

\* undefined, where a version or a snippet is expected.
NoVersion == Version(-1, "undefined", "undefined")
NoSnippet == Snippet(NoId, <<>>, 0)

\* allSnippets[id], undefined when the collection has no such key.
Get(coll, id) == IF id \in DOMAIN coll THEN coll[id] ELSE NoSnippet

\* JavaScript array read: versions[i] with a 0-based index, undefined outside.
At(versions, i) == IF i \in 0..(Len(versions) - 1) THEN versions[i + 1] ELSE NoVersion

\* versions[currentVersion], as renderSnippet reads it.
CurrentVersionOf(snippet) == At(snippet.versions, snippet.currentVersion)

\* Array.prototype.slice(-n): the last n elements; slice(-0) is slice(0).
SliceLast(s, n) ==
  IF n = 0 \/ Len(s) <= n THEN s ELSE SubSeq(s, Len(s) - n + 1, Len(s))

\* -------------------------------------------------------- JSON conversions
\* Mutant of Stringify: the text lists no member.
Stringify_NoMembers(coll) == [kind |-> "json", members |-> {}]

\* JSON.stringify of a collection: the text lists one member per snippet id.
Stringify(coll) ==
  [kind |-> "json", members |-> {<<id, coll[id]>> : id \in DOMAIN coll}]

\* A text that JSON.parse rejects, and the absence of a stored text.
Garbage == [kind |-> "garbage", members |-> {}]
Absent == [kind |-> "absent", members |-> {}]

\* A store whose getItem throws: there is no text to read.
Unreadable == [kind |-> "unreadable", members |-> {}]

IsJson(text) == text.kind = "json"

\* JSON.parse of a text produced by Stringify.
Parse(text) ==
  [id \in {m[1] : m \in text.members} |->
     (CHOOSE m \in text.members : m[1] = id)[2]]

\* JSON.stringify of one snippet, the payload of a remote item, and
\* JSON.parse of such a text.
StringifySnippet(snippet) == [kind |-> "json", members |-> {<<"", snippet>>}]
ParseSnippet(text) == (CHOOSE m \in text.members : TRUE)[2]

\* ------------------------------------------------- StorageManager, pure
\* Mutant of ParseItem: an item whose payload does not parse is kept, with
\* no snippet.
ParseItem_KeepsBad(item, snippets) ==
  IF item.customContent = Absent THEN snippets
  ELSE IF IsJson(item.customContent)
       THEN (item.id :> ParseSnippet(item.customContent)) @@ snippets
       ELSE (item.id :> NoSnippet) @@ snippets

\* parseAPIResponse, lines 251-260, the body of the forEach: an item with a
\* payload that parses is stored under the id of the item; an item without
\* payload is skipped, an error of JSON.parse is caught and logged.
ParseItem(item, snippets) ==
  IF item.customContent = Absent THEN snippets
  ELSE IF IsJson(item.customContent)
       THEN (item.id :> ParseSnippet(item.customContent)) @@ snippets
       ELSE snippets

\* data.items.forEach, lines 251-260, from the collection built so far.
RECURSIVE ParseItems(_, _)
ParseItems(items, snippets) ==
  IF items = << >> THEN snippets
  ELSE ParseItems(Tail(items), ParseItem(Head(items), snippets))

\* parseAPIResponse, lines 247-264, for a response with an item list.
ParseAPIResponse(items) == ParseItems(items, EmptyCollection)

\* saveSnippet, lines 109-115: the version a save records.
NewVersion(snippet, data) ==
  Version(Len(snippet.versions), data.html,
          IF data.author = NoAuthor THEN "unknown" ELSE data.author)

\* Mutant of KeepLast: the trim keeps one version too many.
KeepLast_OneTooMany(versions, limit) ==
  IF Len(versions) > limit THEN SliceLast(versions, limit + 1) ELSE versions

\* saveSnippet, lines 120-123: keep only the last N versions.
KeepLast(versions, limit) ==
  IF Len(versions) > limit THEN SliceLast(versions, limit) ELSE versions

\* saveSnippet, line 118: the current pointer after a save.
PointerAfterSave(newVersion) == newVersion.version

\* saveSnippet, lines 101-123, on the collection getAllSnippets returned.
SaveSnippet(allSnippets, snippetId, data, limit) ==
  LET snippet == IF snippetId \in DOMAIN allSnippets
                 THEN allSnippets[snippetId]
                 ELSE Snippet(snippetId, <<>>, 0)
      newVersion == NewVersion(snippet, data)
      saved == Snippet(snippet.id,
                       KeepLast(Append(snippet.versions, newVersion), limit),
                       PointerAfterSave(newVersion))
  IN [coll |-> (snippetId :> saved) @@ allSnippets, ret |-> newVersion]

\* Mutant of DeleteSnippet: the key is not removed.
DeleteSnippet_KeepsTheKey(allSnippets, snippetId) == allSnippets

\* deleteSnippet, line 138: delete allSnippets[snippetId].
DeleteSnippet(allSnippets, snippetId) ==
  [id \in DOMAIN allSnippets \ {snippetId} |-> allSnippets[id]]

\* Mutant of VersionFound: only the snippet is looked up, not the version.
VersionFound_SnippetOnly(allSnippets, snippetId, versionNumber) ==
  snippetId \in DOMAIN allSnippets

\* restoreVersion, line 150: !snippet || !snippet.versions[versionNumber].
VersionFound(allSnippets, snippetId, versionNumber) ==
  /\ snippetId \in DOMAIN allSnippets
  /\ At(allSnippets[snippetId].versions, versionNumber) # NoVersion

\* Mutant of Restored: the pointer is not moved.
Restored_PointerKept(snippet, versionNumber) == snippet

\* restoreVersion, line 154: the snippet after the pointer is moved.
Restored(snippet, versionNumber) ==
  [snippet EXCEPT !.currentVersion = versionNumber]

\* restoreVersion, lines 148-154, for a version that is found.
RestoreVersion(allSnippets, snippetId, versionNumber) ==
  [allSnippets EXCEPT ![snippetId] = Restored(@, versionNumber)]

\* Mutant of MergeSnippets: the spread order is swapped, so that an existing
\* snippet wins over the imported one.
MergeSnippets_ExistingWins(currentSnippets, snippets) ==
  currentSnippets @@ snippets

\* import handler, line 1322: { ...currentSnippets, ...snippets }.
MergeSnippets(currentSnippets, snippets) == snippets @@ currentSnippets

\* Mutant of LoadFromLocalStorage: a text that does not parse yields a
\* collection with a snippet instead of the empty one.
LoadFromLocalStorage_Default(text) ==
  IF IsJson(text) THEN Parse(text)
  ELSE [id \in {"a"} |-> Snippet("a", <<Version(0, "A", "unknown")>>, 0)]

\* Mutant of LoadFromLocalStorage: the stored text is ignored.
LoadFromLocalStorage_Empty(text) == EmptyCollection

\* Mutant of SaveToLocalStorage: nothing is stored.
SaveToLocalStorage_Skipped(text, data, ok) == text

\* Mutant of CacheHit: the cache is never used.
CacheHit_Never(c) == FALSE

\* getAllSnippets, line 76: if (this.cache).
CacheHit(c) == c # NULL

\* loadFromLocalStorage, lines 163-171, on the stored text.
LoadFromLocalStorage(text) == IF IsJson(text) THEN Parse(text) ELSE EmptyCollection

\* saveToLocalStorage, lines 173-180: the stored text afterwards; a setItem
\* that throws leaves the old text.
SaveToLocalStorage(text, data, ok) == IF ok THEN Stringify(data) ELSE text

\* Mutant of LocalWriteThrows: the error of setItem reaches the caller.
LocalWriteThrows_Rethrown(ok) == ~ok

\* saveToLocalStorage, lines 174-179: whether the call throws when setItem
\* does; the catch logs the error and returns.
LocalWriteThrows(ok) == FALSE

\* ------------------------------------------------------------------ state
VARIABLES
  cache,              \* StorageManager.cache: NULL or a collection
  syncInProgress,     \* StorageManager.syncInProgress
  local,              \* localStorage[CONFIG.storageKey]: Absent or a text
  remote,             \* the collection the remote API holds
  put,                \* the PUT requests of saveToAPI in flight, oldest first
  maxVersionHistory,  \* CONFIG.maxVersionHistory
  procs,              \* the asynchronous calls in progress, one per caller
  lastOp,             \* observation: the call that returned last
  savesInRow,         \* observation: saves of an id since it was last replaced
  localFaulty,        \* environment: may localStorage.setItem throw
  calls,              \* observation: the calls made so far
  populating,         \* observation: GETs sent, cache assignments from a store
  capture,            \* CONFIG.autoSave, the watched regions, the timer of the
                      \* debounced save of setupAutoSave
  response            \* an item list given to parseAPIResponse, and its result

vars == <<cache, syncInProgress, local, remote, put, maxVersionHistory,
          procs, lastOp, savesInRow, localFaulty, calls, populating,
          capture, response>>

\* What one call did to the stores: GET requests, GET requests that failed,
\* localStorage reads and writes, PUT requests.
ZeroIO == [fetch |-> 0, failed |-> 0, lread |-> 0, lwrite |-> 0, put |-> 0]

NoData == [html |-> "undefined", author |-> NoAuthor]
\* No PUT request is in flight.
NoPut == << >>
NoOwner == "detached"

\* Mutant of Request: the body is built from an empty collection, not from
\* the collection the call holds.
Request_Empty(coll, owner) == [body |-> Stringify(EmptyCollection), owner |-> owner]

\* The PUT request of saveToAPI, lines 221-232: its body is the collection
\* as JSON.stringify reads it when the request is built; its owner is the
\* call that awaits it, if any.
Request(coll, owner) == [body |-> Stringify(coll), owner |-> owner]

\* Mutant of Skips: saveToAPI sends its request whatever the flag says.
Skips_Never(flag) == FALSE

\* saveToAPI, lines 211-214: the request is skipped while a sync is in
\* progress.
Skips(flag) == flag

\* Mutant of FlagAfterPut: the flag is released only by a PUT that succeeded.
FlagAfterPut_OnlyOnSuccess(ok) == ~ok

\* saveToAPI, lines 242-244: finally { this.syncInProgress = false }.
FlagAfterPut(ok) == FALSE

\* Mutant of PutStatus: a failed PUT is not thrown.
PutStatus_Swallowed(ok) == "ok"

\* saveToAPI, lines 234-241: a PUT that failed is thrown to the awaiting call.
PutStatus(ok) == IF ok THEN "ok" ELSE "error"

\* Mutant of AwaitsSaveToAPI: saveSnippet awaits its push like the others.
AwaitsSaveToAPI_Always(op) == TRUE

\* Mutant of AwaitsSaveToAPI: no operation awaits its push.
AwaitsSaveToAPI_Never(op) == FALSE

\* Which operations await saveToAPI (lines 143, 158, 1326) and which leave
\* it behind with a catch handler (saveSnippet, lines 129-131).
AwaitsSaveToAPI(op) == op \in {"delete", "restore", "import"}

IdleProc ==
  [pc |-> "idle", op |-> "none", id |-> NoId, data |-> NoData, k |-> 0,
   text |-> Absent, io |-> ZeroIO, pre |-> NoSnippet, snippet |-> NoSnippet,
   aliased |-> FALSE]

NoOp ==
  [op |-> "none", id |-> NoId, data |-> NoData, k |-> 0, text |-> Absent,
   status |-> "ok", ret |-> NoVersion, coll |-> NULL, io |-> ZeroIO,
   pre |-> NoSnippet, seq |-> 0, prev |-> [op |-> "none", id |-> NoId]]

\* The call that returned before the one that returns now, kept when it was
\* a deleteSnippet or a getAllSnippets call: the calls the properties below
\* look back at.
Previous ==
  IF lastOp.op \in {"delete", "getAll"}
  THEN [op |-> lastOp.op, id |-> lastOp.id]
  ELSE [op |-> "none", id |-> NoId]

\* Collections the remote API may hold when the page loads.
InitRemotes ==
  { EmptyCollection,
    [id \in {"a"} |-> Snippet("a", <<Version(0, "A", "current-user")>>, 0)] }

\* Texts the import dialog is given: exported collections, and a text that
\* is not JSON.
ImportTexts ==
  { Stringify([id \in {"a"} |-> Snippet("a", <<Version(0, "C", "current-user")>>, 0)]),
    Stringify([id \in {"a", "b"} |->
                 Snippet(id, <<Version(0, "B", "current-user")>>, 0)]),
    Garbage }

\* The outcomes of localStorage.setItem.
LocalOutcomes == IF localFaulty THEN {TRUE, FALSE} ELSE {TRUE}

\* No timer is pending.
NoTimer == -1

\* Change capture after SnippetManager.init (lines 1537-1562) in the editor:
\* CONFIG.autoSave is true (line 20), so setupAutoSave has run; its observer
\* is registered one second later (lines 1632-1641). Every region shows "A".
\* sinceEvent counts the time since the last mutation event, burst the
\* events since the timer was last idle and whether they hit one region,
\* coalesced the events of one region that the last expiry stood for.
InitCapture ==
  [autoSave |-> TRUE, observing |-> FALSE, content |-> [id \in Ids |-> "A"],
   timeout |-> NoTimer, args |-> NoId, sinceEvent |-> 0,
   burst |-> [id |-> NoId, n |-> 0, same |-> TRUE], events |-> 0,
   coalesced |-> 0]

\* No item list has been given to parseAPIResponse.
NoResponse == [items |-> << >>, snippets |-> EmptyCollection, parsed |-> FALSE]

\* StorageManager constructor, lines 70-73; CONFIG, lines 13-23.
Init ==
  /\ cache = NULL
  /\ syncInProgress = FALSE
  /\ local = Absent
  /\ remote \in InitRemotes
  /\ put = NoPut
  /\ maxVersionHistory = MaxVersionLimit
  /\ procs = [p \in Procs |-> IdleProc]
  /\ lastOp = NoOp
  /\ savesInRow = [id \in Ids |-> 0]
  /\ localFaulty = FALSE
  /\ calls = 0
  /\ populating = [fetches |-> 0, assigned |-> 0]
  /\ capture = InitCapture
  /\ response = NoResponse

\* ---------------------------------------------------------------- actions
Call(op, id, data, k, text) ==
  [op |-> op, id |-> id, data |-> data, k |-> k, text |-> text]

\* What a call does to the collection getAllSnippets gave it, up to the
\* writes: the new collection, the value to return, whether the call goes on
\* to saveToLocalStorage and saveToAPI, whether it awaits saveToAPI, and the
\* ids whose snippet object it replaced or dropped.
Body(call, c, limit) ==
  CASE call.op = "save" ->
         LET r == SaveSnippet(c, call.id, call.data, limit)
         IN [coll |-> r.coll, ret |-> r.ret, status |-> "ok", writes |-> TRUE,
             awaited |-> AwaitsSaveToAPI("save"), replaced |-> {}]
    [] call.op = "delete" ->
         [coll |-> DeleteSnippet(c, call.id), ret |-> NoVersion, status |-> "ok",
          writes |-> TRUE, awaited |-> AwaitsSaveToAPI("delete"),
          replaced |-> {call.id}]
    [] call.op = "restore" ->
         IF VersionFound(c, call.id, call.k)
         THEN [coll |-> RestoreVersion(c, call.id, call.k), ret |-> NoVersion,
               status |-> "ok", writes |-> TRUE,
               awaited |-> AwaitsSaveToAPI("restore"), replaced |-> {}]
         ELSE [coll |-> c, ret |-> NoVersion, status |-> "notfound",
               writes |-> FALSE, awaited |-> FALSE, replaced |-> {}]
    [] call.op = "import" ->
         [coll |-> MergeSnippets(c, Parse(call.text)), ret |-> NoVersion,
          status |-> "ok", writes |-> TRUE, awaited |-> AwaitsSaveToAPI("import"),
          replaced |-> DOMAIN Parse(call.text)]
    [] OTHER ->
         [coll |-> c, ret |-> NoVersion, status |-> "ok", writes |-> FALSE,
          awaited |-> FALSE, replaced |-> {}]

\* restoreVersion, line 160: snippet.versions[versionNumber], read from the
\* snippet object the call holds when it returns.
RestoreResult(snippet, versionNumber) == At(snippet.versions, versionNumber)

\* The value a call hands back once it is over, with the number of the call
\* and the call that returned before it.
Returned(call, status, snippet, coll, io, pre) ==
  [op |-> call.op, id |-> call.id, data |-> call.data, k |-> call.k,
   text |-> call.text, status |-> status,
   ret |-> IF call.op = "restore" /\ status = "ok"
           THEN RestoreResult(snippet, call.k) ELSE NoVersion,
   coll |-> coll, io |-> io, pre |-> pre, seq |-> calls', prev |-> Previous]

\* The snippet objects held by calls that wait for their PUT: an object
\* still in the cache follows the cache, a replaced one keeps its value.
Track(ps, coll, replaced) ==
  [q \in Procs |->
     IF ps[q].pc = "put" /\ ps[q].aliased
     THEN IF ps[q].id \in replaced \/ ps[q].id \notin DOMAIN coll
          THEN [ps[q] EXCEPT !.aliased = FALSE]
          ELSE [ps[q] EXCEPT !.snippet = coll[ps[q].id]]
     ELSE ps[q]]

\* The saves of each id in a row, after a call.
CountSaves(sv, call, b, limit) ==
  [id \in Ids |->
     IF id \in b.replaced THEN 0
     ELSE IF call.op = "save" /\ id = call.id
          THEN (IF sv[id] > limit THEN sv[id] ELSE sv[id] + 1)
          ELSE sv[id]]

\* A call from the point where getAllSnippets has returned collection c,
\* run up to its PUT request (lines 101-133, 138-143, 148-160, 1322-1326):
\* the change of the collection, saveToLocalStorage, and saveToAPI up to its
\* fetch (lines 210-232), which is skipped while a sync is in progress.
Run(p, call, c, lcl, io, sv, ps, lok) ==
  LET b == Body(call, c, maxVersionHistory)
      thrown == b.writes /\ LocalWriteThrows(lok)
      pushes == b.writes /\ ~thrown /\ ~Skips(syncInProgress)
      waits == pushes /\ b.awaited
      io2 == [io EXCEPT !.lwrite = @ + (IF b.writes THEN 1 ELSE 0),
                        !.put = @ + (IF pushes THEN 1 ELSE 0)]
      pre == IF call.op \in {"save", "delete", "restore"}
             THEN Get(c, call.id) ELSE NoSnippet
      held == Get(b.coll, call.id)
      result == IF thrown
                THEN Returned(call, "error", NoSnippet, NULL, io2, pre)
                ELSE IF call.op = "save"
                THEN [Returned(call, b.status, held, NULL, io2, pre)
                        EXCEPT !.ret = b.ret]
                ELSE Returned(call, b.status, held,
                              IF call.op = "getAll" THEN c ELSE NULL, io2, pre)
      others == Track(ps, b.coll, b.replaced)
  IN /\ cache' = b.coll
     /\ local' = IF b.writes THEN SaveToLocalStorage(lcl, b.coll, lok) ELSE lcl
     /\ syncInProgress' = (syncInProgress \/ pushes)
     /\ put' = IF pushes
               THEN Append(put, Request(b.coll, IF b.awaited THEN p ELSE NoOwner))
               ELSE put
     /\ procs' = [others EXCEPT ![p] =
                    IF waits
                    THEN [pc |-> "put", op |-> call.op, id |-> call.id,
                          data |-> call.data, k |-> call.k, text |-> call.text,
                          io |-> io2, pre |-> pre, snippet |-> held,
                          aliased |-> call.op = "restore"]
                    ELSE IdleProc]
     /\ lastOp' = IF waits THEN lastOp ELSE result
     /\ savesInRow' = CountSaves(sv, call, b, maxVersionHistory)
     /\ UNCHANGED <<remote, maxVersionHistory, localFaulty>>

\* One more call, within the budget.
Counted == calls < MaxCalls /\ calls' = calls + 1

\* A call is made (getAllSnippets, lines 75-82): on a cache hit it runs on
\* the cache, otherwise it sends the GET of fetchFromAPI and waits.
Start(p, call) ==
  /\ procs[p].pc = "idle"
  /\ Counted
  /\ populating' = IF CacheHit(cache) THEN populating
                    ELSE [populating EXCEPT !.fetches = @ + 1]
  /\ IF CacheHit(cache)
     THEN \E lok \in LocalOutcomes :
            Run(p, call, cache, local, ZeroIO, savesInRow, procs, lok)
     ELSE /\ procs' = [procs EXCEPT ![p] =
                         [IdleProc EXCEPT !.pc = "fetch", !.op = call.op,
                            !.id = call.id, !.data = call.data, !.k = call.k,
                            !.text = call.text, !.io = [ZeroIO EXCEPT !.fetch = 1]]]
          /\ UNCHANGED <<cache, syncInProgress, local, remote, put,
                         maxVersionHistory, lastOp, savesInRow, localFaulty>>

\* fetchFromAPI, lines 182-208: the parsed answer, or null on any failure.
FetchFromAPI(ok) == IF ok THEN remote ELSE NULL

\* StorageManager.getAllSnippets as a call of its own, lines 75-96.
GetAllSnippetsCall(p) ==
  /\ Start(p, Call("getAll", NoId, NoData, 0, Absent))
  /\ UNCHANGED <<capture, response>>

\* StorageManager.saveSnippet, lines 98-134.
SaveSnippetCall(p, snippetId, data) ==
  /\ Start(p, Call("save", snippetId, data, 0, Absent))
  /\ UNCHANGED <<capture, response>>

\* StorageManager.deleteSnippet, lines 136-144.
DeleteSnippetCall(p, snippetId) ==
  /\ Start(p, Call("delete", snippetId, NoData, 0, Absent))
  /\ UNCHANGED <<capture, response>>

\* StorageManager.restoreVersion, lines 146-161.
RestoreVersionCall(p, snippetId, versionNumber) ==
  /\ Start(p, Call("restore", snippetId, NoData, versionNumber, Absent))
  /\ UNCHANGED <<capture, response>>

\* The import handler of UIManager.showImportExport, lines 1311-1334:
\* JSON.parse of the pasted text comes first and ends the handler when it
\* throws.
ImportCall(p, text) ==
  IF IsJson(text)
  THEN /\ Start(p, Call("import", NoId, NoData, 0, text))
       /\ UNCHANGED <<capture, response>>
  ELSE /\ procs[p].pc = "idle"
       /\ Counted
       /\ lastOp' = Returned(Call("import", NoId, NoData, 0, text), "error",
                             NoSnippet, NULL, ZeroIO, NoSnippet)
       /\ UNCHANGED <<cache, syncInProgress, local, remote, put,
                      maxVersionHistory, procs, savesInRow, localFaulty,
                      populating, capture, response>>

\* The GET of a call answers (getAllSnippets, lines 82-95): a fetched
\* collection becomes the cache and is written to localStorage, otherwise
\* the cache is loaded from localStorage; the call then runs on.
FetchReturn(p, ok, lokFetched, lok) ==
  /\ procs[p].pc = "fetch"
  /\ UNCHANGED <<calls, capture, response>>
  /\ populating' = [populating EXCEPT !.assigned = @ + 1]
  /\ LET apiData == FetchFromAPI(ok)
         hit == apiData # NULL
         c == IF hit THEN apiData ELSE LoadFromLocalStorage(local)
         lcl == IF hit THEN SaveToLocalStorage(local, apiData, lokFetched) ELSE local
         answered == [procs[p].io EXCEPT !.failed = IF ok THEN 0 ELSE 1]
         io == IF hit THEN [answered EXCEPT !.lwrite = @ + 1]
               ELSE [answered EXCEPT !.lread = @ + 1]
         me == procs[p]
     IN Run(p, Call(me.op, me.id, me.data, me.k, me.text), c, lcl, io,
            [id \in Ids |-> 0], Track(procs, EmptyCollection, Ids), lok)

\* The PUT of saveToAPI answers (lines 234-244): the remote holds the body
\* when the request succeeded, the flag is cleared either way, and a call
\* that awaited saveToAPI returns or throws.
PutReturn(i, ok) ==
  /\ i \in 1..Len(put)
  /\ UNCHANGED <<calls, populating, capture, response>>
  /\ remote' = IF ok THEN Parse(put[i].body) ELSE remote
  /\ syncInProgress' = FlagAfterPut(ok)
  /\ put' = SubSeq(put, 1, i - 1) \o SubSeq(put, i + 1, Len(put))
  /\ IF put[i].owner \in Procs
     THEN LET me == procs[put[i].owner]
          IN /\ procs' = [procs EXCEPT ![put[i].owner] = IdleProc]
             /\ lastOp' = Returned(Call(me.op, me.id, me.data, me.k, me.text),
                                   PutStatus(ok),
                                   me.snippet, NULL, me.io, me.pre)
     ELSE UNCHANGED <<procs, lastOp>>
  /\ UNCHANGED <<cache, local, maxVersionHistory, savesInRow, localFaulty>>

\* UIManager.clearAllData, lines 1224-1248.
ClearAllData ==
  /\ Counted
  /\ local' = Absent
  /\ cache' = EmptyCollection
  /\ procs' = Track(procs, EmptyCollection, Ids)
  /\ savesInRow' = [id \in Ids |-> 0]
  /\ lastOp' = [NoOp EXCEPT !.op = "clear", !.seq = calls', !.prev = Previous]
  /\ UNCHANGED <<syncInProgress, remote, put, maxVersionHistory, localFaulty,
                 populating, capture, response>>

\* The change handler of the version-limit input, lines 946-949.
SetVersionLimit(n) ==
  /\ Counted
  /\ maxVersionHistory' = n
  /\ n # maxVersionHistory
  /\ savesInRow' = [id \in Ids |-> 0]
  /\ lastOp' = [NoOp EXCEPT !.op = "limit", !.seq = calls', !.prev = Previous]
  /\ UNCHANGED <<cache, syncInProgress, local, remote, put, procs, localFaulty,
                 populating, capture, response>>

\* No call is in progress: a caller that awaits each call before the next.
Quiet == \A q \in Procs : procs[q].pc = "idle"

\* The caller of the sequential specification.
Main == "p1"

Next ==
  \/ Quiet /\ GetAllSnippetsCall(Main)
  \/ \E id \in Ids, html \in Htmls, author \in AuthorInputs :
       Quiet /\ SaveSnippetCall(Main, id, [html |-> html, author |-> author])
  \/ \E id \in Ids : Quiet /\ DeleteSnippetCall(Main, id)
  \/ \E id \in Ids, k \in VersionArgs : Quiet /\ RestoreVersionCall(Main, id, k)
  \/ \E text \in ImportTexts : Quiet /\ ImportCall(Main, text)
  \/ \E p \in Procs, ok \in BOOLEAN, lokFetched \in LocalOutcomes, lok \in LocalOutcomes :
       FetchReturn(p, ok, lokFetched, lok)
  \/ \E i \in 1..Len(put), ok \in BOOLEAN : PutReturn(i, ok)
  \/ Quiet /\ ClearAllData
  \/ \E n \in VersionLimits : Quiet /\ SetVersionLimit(n)

\* Calls made one after the other, each awaited; the PUT a saveSnippet leaves
\* behind may still be in flight when the next call is made.
Spec == Init /\ [][Next]_vars

\* The callers free to make a call. Callers differ in name only, so the
\* second one is taken when the first is busy.
Free ==
  IF calls >= MaxInterleaved THEN {}
  ELSE IF procs[Main].pc = "idle" THEN {Main}
  ELSE {p \in Procs : procs[p].pc = "idle"}

\* The inputs of interleaved calls: indices of the first two versions, and
\* the pasted texts that hold one snippet.
InterleavedArgs == {k \in VersionArgs : k \in 0..1}
InterleavedTexts == {t \in ImportTexts : Cardinality(t.members) = 1}

\* Calls made without waiting for the calls in progress: two callers (event
\* handlers, the debounced auto-save) whose calls interleave at their awaits.
Interleaved ==
  \/ \E p \in Free : GetAllSnippetsCall(p)
  \/ \E p \in Free, id \in Ids, html \in Htmls, author \in AuthorInputs :
       SaveSnippetCall(p, id, [html |-> html, author |-> author])
  \/ \E p \in Free, id \in Ids : DeleteSnippetCall(p, id)
  \/ \E p \in Free, id \in Ids, k \in InterleavedArgs :
       RestoreVersionCall(p, id, k)
  \/ \E p \in Free, text \in InterleavedTexts : ImportCall(p, text)
  \/ \E p \in Procs, ok \in BOOLEAN, lokFetched \in LocalOutcomes, lok \in LocalOutcomes :
       FetchReturn(p, ok, lokFetched, lok)
  \/ \E i \in 1..Len(put), ok \in BOOLEAN : PutReturn(i, ok)

SpecInterleaved == Init /\ [][Interleaved]_vars

\* Whether the call r (in progress, or returned) writes the snippet id.
Involves(r, id) ==
  \/ r.op = "save" /\ r.id = id
  \/ r.op = "import" /\ IsJson(r.text) /\ id \in DOMAIN Parse(r.text)

\* A call that writes the snippet id has been made.
Called(id) ==
  \/ Involves(lastOp, id)
  \/ \E p \in Procs : procs[p].pc # "idle" /\ Involves(procs[p], id)

\* A caller that may make the call on id of a pair of calls on two ids.
FreeFor(id) ==
  IF Called(id) \/ calls >= 2 THEN {}
  ELSE IF procs[Main].pc = "idle" THEN {Main}
  ELSE {p \in Procs : procs[p].pc = "idle"}

\* The text pasted into the import dialog: an export with snippet "a".
PastedText ==
  Stringify([id \in {"a"} |-> Snippet("a", <<Version(0, "C", "current-user")>>, 0)])

\* Two calls on different ids, the second made without waiting for the
\* first: saveSnippet('b') from one handler, and saveSnippet('a') or an
\* import of snippet 'a' from another, in either order.
Paired ==
  \/ \E p \in FreeFor("b"), author \in AuthorInputs :
       SaveSnippetCall(p, "b", [html |-> "B", author |-> author])
  \/ \E p \in FreeFor("a"), author \in AuthorInputs :
       SaveSnippetCall(p, "a", [html |-> "B", author |-> author])
  \/ \E p \in FreeFor("a") : ImportCall(p, PastedText)
  \/ \E p \in Procs, ok \in BOOLEAN, lokFetched \in LocalOutcomes, lok \in LocalOutcomes :
       FetchReturn(p, ok, lokFetched, lok)
  \/ \E i \in 1..Len(put), ok \in BOOLEAN : PutReturn(i, ok)

SpecPaired == Init /\ [][Paired]_vars

\* Mutant of Debounce: a call made while the timer is pending does not
\* restart it.
Debounce_KeepsPending(timeout, wait) == IF timeout # NoTimer THEN timeout ELSE wait

\* Utils.debounce, lines 34-35: clearTimeout(timeout); timeout =
\* setTimeout(later, wait). The time left on the timer after a call.
Debounce(timeout, wait) == wait

\* The events of the burst after an event on region id.
Burst(b, id) ==
  IF b.n = 0 THEN [id |-> id, n |-> 1, same |-> TRUE]
  ELSE [id |-> b.id, n |-> b.n + 1, same |-> b.same /\ b.id = id]

\* The callback of setTimeout in setupAutoSave, lines 1632-1641: the
\* regions are observed from now on.
StartObserving ==
  /\ ~capture.observing
  /\ capture' = [capture EXCEPT !.observing = TRUE]
  /\ UNCHANGED <<cache, syncInProgress, local, remote, put, maxVersionHistory,
                 procs, lastOp, savesInRow, localFaulty, calls, populating,
                 response>>

\* The content of the region of snippet id changes to html. When the region
\* is observed, the MutationObserver callback (lines 1621-1630) calls the one
\* debounced function of setupAutoSave with the id and the element.
Mutation(id, html) ==
  /\ capture.events < MaxEvents
  /\ html # capture.content[id]
  /\ capture' =
       IF capture.observing
       THEN [capture EXCEPT !.content[id] = html,
                            !.events = @ + 1,
                            !.timeout = Debounce(@, AutoSaveDelay),
                            !.args = id,
                            !.sinceEvent = 0,
                            !.burst = Burst(@, id)]
       ELSE [capture EXCEPT !.content[id] = html, !.events = @ + 1]
  /\ UNCHANGED <<cache, syncInProgress, local, remote, put, maxVersionHistory,
                 procs, lastOp, savesInRow, localFaulty, calls, populating,
                 response>>

\* One second passes while the timer is pending.
Tick ==
  /\ capture.timeout > 0
  /\ capture' = [capture EXCEPT !.timeout = @ - 1, !.sinceEvent = @ + 1]
  /\ UNCHANGED <<cache, syncInProgress, local, remote, put, maxVersionHistory,
                 procs, lastOp, savesInRow, localFaulty, calls, populating,
                 response>>

\* The timer of the debounced function expires (Utils.debounce, lines
\* 30-33, and the function of setupAutoSave, lines 1608-1617): saveSnippet
\* is called with the arguments of the last call and the content the element
\* has now.
AutoSave(p) ==
  /\ capture.timeout = 0
  /\ Start(p, Call("save", capture.args,
                   [html |-> capture.content[capture.args], author |-> "auto-save"],
                   0, Absent))
  /\ capture' = [capture EXCEPT !.timeout = NoTimer, !.args = NoId,
                                !.burst = [id |-> NoId, n |-> 0, same |-> TRUE],
                                !.coalesced = IF capture.burst.same
                                              THEN capture.burst.n ELSE 0]
  /\ UNCHANGED response

\* The change handler of the auto-save toggle, lines 936-939.
ToggleAutoSave ==
  /\ capture' = [capture EXCEPT !.autoSave = ~@]
  /\ UNCHANGED <<cache, syncInProgress, local, remote, put, maxVersionHistory,
                 procs, lastOp, savesInRow, localFaulty, calls, populating,
                 response>>

\* Change capture in the editor: mutations of the watched regions, the
\* passing of time, the auto-save toggle, and the saves the timer makes.
Capturing ==
  \/ StartObserving
  \/ \E id \in Ids, html \in Htmls : Mutation(id, html)
  \/ Tick
  \/ \E p \in Procs : AutoSave(p)
  \/ ToggleAutoSave
  \/ \E p \in Procs, ok \in BOOLEAN, lokFetched \in LocalOutcomes, lok \in LocalOutcomes :
       FetchReturn(p, ok, lokFetched, lok)
  \/ \E i \in 1..Len(put), ok \in BOOLEAN : PutReturn(i, ok)

SpecCapture == Init /\ [][Capturing]_vars

\* What localStorage holds when a session starts after an earlier one: the
\* collection that session stored, or a text that JSON.parse rejects.
StoredTexts ==
  { Stringify([id \in {"a"} |->
                 Snippet("a", <<Version(0, "A", "current-user"),
                                Version(1, "B", "current-user")>>, 1)]),
    Garbage }

\* What the first read of localStorage can meet: a stored text, no text, or
\* a getItem that throws.
FirstTexts == StoredTexts \cup {Absent, Unreadable}

\* The state after construction in such a session.
InitReturning ==
  /\ cache = NULL
  /\ syncInProgress = FALSE
  /\ local \in FirstTexts
  /\ remote \in InitRemotes
  /\ put = NoPut
  /\ maxVersionHistory = MaxVersionLimit
  /\ procs = [p \in Procs |-> IdleProc]
  /\ lastOp = NoOp
  /\ savesInRow = [id \in Ids |-> 0]
  /\ localFaulty = FALSE
  /\ calls = 0
  /\ populating = [fetches |-> 0, assigned |-> 0]
  /\ capture = InitCapture
  /\ response = NoResponse

\* The sequential caller may make one more call in such a session.
Ready == Quiet /\ calls < MaxReturning

\* The calls on the StorageManager in such a session, one after the other.
Returning ==
  \/ Ready /\ GetAllSnippetsCall(Main)
  \/ \E id \in Ids, html \in Htmls, author \in AuthorInputs :
       Ready /\ SaveSnippetCall(Main, id, [html |-> html, author |-> author])
  \/ \E id \in Ids : Ready /\ DeleteSnippetCall(Main, id)
  \/ \E id \in Ids, k \in VersionArgs : Ready /\ RestoreVersionCall(Main, id, k)
  \/ \E p \in Procs, ok \in BOOLEAN, lokFetched \in LocalOutcomes, lok \in LocalOutcomes :
       FetchReturn(p, ok, lokFetched, lok)
  \/ \E i \in 1..Len(put), ok \in BOOLEAN : PutReturn(i, ok)

SpecReturning == InitReturning /\ [][Returning]_vars

\* A session in which localStorage.setItem may throw (quota exceeded,
\* storage disabled): the state after construction.
InitFaulty ==
  /\ cache = NULL
  /\ syncInProgress = FALSE
  /\ local = Absent
  /\ remote \in InitRemotes
  /\ put = NoPut
  /\ maxVersionHistory = MaxVersionLimit
  /\ procs = [p \in Procs |-> IdleProc]
  /\ lastOp = NoOp
  /\ savesInRow = [id \in Ids |-> 0]
  /\ localFaulty = TRUE
  /\ calls = 0
  /\ populating = [fetches |-> 0, assigned |-> 0]
  /\ capture = InitCapture
  /\ response = NoResponse

SpecFaulty == InitFaulty /\ [][Returning]_vars

\* The page is loaded again after a saveSnippet has returned: a new
\* StorageManager is constructed (lines 70-73) over the localStorage and
\* the remote the old session leaves behind. A PUT still in flight when the
\* page unloads has reached the remote or has not.
Restart ==
  /\ Quiet /\ lastOp.op = "save"
  /\ cache # NULL
  /\ cache' = NULL
  /\ syncInProgress' = FALSE
  /\ put' = NoPut
  /\ \E delivered \in BOOLEAN :
       remote' = IF delivered /\ put # NoPut THEN Parse(put[1].body) ELSE remote
  /\ savesInRow' = [id \in Ids |-> 0]
  /\ populating' = [fetches |-> 0, assigned |-> 0]
  /\ UNCHANGED <<local, maxVersionHistory, procs, lastOp, localFaulty, calls,
                 capture, response>>

\* The new session has begun: the cache is unpopulated although a save
\* has returned, or the first getAllSnippets of the new session has.
Restarted == (Quiet /\ cache = NULL /\ lastOp.op = "save") \/ lastOp.op = "getAll"

\* A session of saves, a reload of the page, and the first getAllSnippets
\* of the new session.
Restarting ==
  \/ \E id \in Ids, html \in Htmls, author \in AuthorInputs :
       /\ Ready /\ ~Restarted
       /\ SaveSnippetCall(Main, id, [html |-> html, author |-> author])
  \/ Restart
  \/ Quiet /\ Restarted /\ lastOp.op = "save" /\ GetAllSnippetsCall(Main)
  \/ \E p \in Procs, ok \in BOOLEAN, lokFetched \in LocalOutcomes, lok \in LocalOutcomes :
       FetchReturn(p, ok, lokFetched, lok)
  \/ \E i \in 1..Len(put), ok \in BOOLEAN : PutReturn(i, ok)

SpecRestarting == Init /\ [][Restarting]_vars

\* A session of saves, clear-all and getAllSnippets, one call after the
\* other.
Clearing ==
  \/ Ready /\ GetAllSnippetsCall(Main)
  \/ \E id \in Ids, html \in Htmls, author \in AuthorInputs :
       Ready /\ SaveSnippetCall(Main, id, [html |-> html, author |-> author])
  \/ Ready /\ ClearAllData
  \/ \E p \in Procs, ok \in BOOLEAN, lokFetched \in LocalOutcomes, lok \in LocalOutcomes :
       FetchReturn(p, ok, lokFetched, lok)
  \/ \E i \in 1..Len(put), ok \in BOOLEAN : PutReturn(i, ok)

SpecClearing == Init /\ [][Clearing]_vars

\* The ids of the items of a remote response.
ItemIds == {"a", "b", "c"}

\* The payloads of an item: none, a text that does not parse, the text of a
\* snippet.
Payloads ==
  { Absent, Garbage,
    StringifySnippet(Snippet("a", <<Version(0, "A", "current-user")>>, 0)),
    StringifySnippet(Snippet("b", <<Version(0, "A", "current-user"),
                                    Version(1, "B", "current-user")>>, 1)) }

Items == [id : ItemIds, customContent : Payloads]

\* The item lists of a response: up to MaxItems items, each with an id of
\* its own, as the items of one remote collection have.
ItemLists ==
  { l \in UNION {[1..n -> Items] : n \in 0..MaxItems} :
      \A i \in DOMAIN l : \A j \in DOMAIN l : l[i].id = l[j].id => i = j }

\* A response with an item list has arrived and is to be translated.
InitParse ==
  /\ cache = NULL
  /\ syncInProgress = FALSE
  /\ local = Absent
  /\ remote = EmptyCollection
  /\ put = NoPut
  /\ maxVersionHistory = MaxVersionLimit
  /\ procs = [p \in Procs |-> IdleProc]
  /\ lastOp = NoOp
  /\ savesInRow = [id \in Ids |-> 0]
  /\ localFaulty = FALSE
  /\ calls = 0
  /\ populating = [fetches |-> 0, assigned |-> 0]
  /\ capture = InitCapture
  /\ response \in {[NoResponse EXCEPT !.items = l] : l \in ItemLists}

\* fetchFromAPI, line 203: return this.parseAPIResponse(data).
ParseResponse ==
  /\ ~response.parsed
  /\ response' = [response EXCEPT !.snippets = ParseAPIResponse(response.items),
                                  !.parsed = TRUE]
  /\ UNCHANGED <<cache, syncInProgress, local, remote, put, maxVersionHistory,
                 procs, lastOp, savesInRow, localFaulty, calls, populating,
                 capture>>

SpecParse == InitParse /\ [][ParseResponse]_vars

\* The interleaved calls with one content for every save: what a push
\* carries has no part in how its PUT is answered.
Answered ==
  \/ \E p \in Free : GetAllSnippetsCall(p)
  \/ \E p \in Free, id \in Ids, author \in AuthorInputs :
       SaveSnippetCall(p, id, [html |-> "B", author |-> author])
  \/ \E p \in Free, id \in Ids : DeleteSnippetCall(p, id)
  \/ \E p \in Free, id \in Ids, k \in InterleavedArgs :
       RestoreVersionCall(p, id, k)
  \/ \E p \in Free, text \in InterleavedTexts : ImportCall(p, text)
  \/ \E p \in Procs, ok \in BOOLEAN, lokFetched \in LocalOutcomes, lok \in LocalOutcomes :
       FetchReturn(p, ok, lokFetched, lok)
  \/ \E i \in 1..Len(put), ok \in BOOLEAN : PutReturn(i, ok)

\* Every remote call is answered in the end: a PUT in flight does not stay
\* in flight for ever.
SpecAnswered ==
  /\ Init /\ [][Answered]_vars
  /\ WF_vars(\E i \in 1..Len(put), ok \in BOOLEAN : PutReturn(i, ok))

\* ----------------------------------------------------------------- claims
\* A call returned in this step.
Returns == lastOp'.seq # lastOp.seq

\* The call that returned last is an op call, and no call was made since.
After(op) == Quiet /\ lastOp.op = op

\* The snippets of the cache.
Cached == IF cache = NULL THEN {} ELSE {cache[id] : id \in DOMAIN cache}

\* C1: every snippet of the cache has at least one version and a current
\* pointer that is an index of its versions list.
C1_PointerIsAnIndex ==
  \A snippet \in Cached :
    /\ Len(snippet.versions) > 0
    /\ snippet.currentVersion \in 0..(Len(snippet.versions) - 1)

\* C2: right after saveSnippet(id, data) the current version of the snippet,
\* versions[currentVersion], is the version the save appended and returned.
C2_CurrentIsTheSavedVersion ==
  After("save") =>
    /\ CurrentVersionOf(cache[lastOp.id]) = lastOp.ret
    /\ CurrentVersionOf(cache[lastOp.id]).html = lastOp.data.html

\* C3: after more saves of one id in a row than maxVersionHistory, its
\* versions list has exactly maxVersionHistory entries, and the last one
\* holds the content of the latest save.
C3_TrimmedToTheLimit ==
  \A id \in Ids :
    savesInRow[id] > maxVersionHistory =>
      /\ id \in DOMAIN cache
      /\ Len(cache[id].versions) = maxVersionHistory
      /\ (After("save") /\ lastOp.id = id =>
            /\ cache[id].versions[Len(cache[id].versions)] = lastOp.ret
            /\ lastOp.ret.html = lastOp.data.html)

\* C3 witness: a save that was one of more than maxVersionHistory in a row.
C3_Witness ==
  /\ After("save")
  /\ savesInRow[lastOp.id] > maxVersionHistory
  /\ maxVersionHistory = MaxVersionLimit

\* C4: the version numbers of a ledger are strictly increasing, so no two
\* versions of a snippet carry the same number.
C4_VersionNumbersIncrease ==
  \A snippet \in Cached :
    \A i, j \in 1..Len(snippet.versions) :
      i < j => snippet.versions[i].version < snippet.versions[j].version

\* C5: a successful restoreVersion(id, k) appends a version with the content
\* of version k: below the limit the ledger is one longer, its last entry
\* holds the restored content, and the versions it had come first, in order.
C5_RestoreAppends ==
  After("restore") /\ lastOp.status = "ok" =>
    LET old == lastOp.pre.versions
        new == cache[lastOp.id].versions
    IN /\ new[Len(new)].html = At(old, lastOp.k).html
       /\ Len(old) < maxVersionHistory =>
            Len(new) = Len(old) + 1 /\ SubSeq(new, 1, Len(old)) = old

\* C6: after a successful restoreVersion(id, k) the current version of the
\* snippet in the cache, which getAllSnippets returns, is the version that
\* was at index k before the call, and the call returned that version.
C6_RestoreShowsTheVersion ==
  After("restore") /\ lastOp.status = "ok" =>
    /\ At(lastOp.pre.versions, lastOp.k) # NoVersion
    /\ lastOp.id \in DOMAIN cache
    /\ CurrentVersionOf(cache[lastOp.id]) = At(lastOp.pre.versions, lastOp.k)
    /\ lastOp.ret = At(lastOp.pre.versions, lastOp.k)

\* C6 witness: a restore of a version other than the current one.
C6_Witness ==
  /\ After("restore") /\ lastOp.status = "ok"
  /\ Len(lastOp.pre.versions) >= 2
  /\ lastOp.k # lastOp.pre.currentVersion
  /\ At(lastOp.pre.versions, lastOp.k).html # CurrentVersionOf(lastOp.pre).html

\* The snippet is absent from the collection or k is no index of its versions.
Missing(coll, id, k) ==
  id \notin DOMAIN coll \/ k \notin 0..(Len(coll[id].versions) - 1)

\* A restoreVersion for a missing version returns in this step.
RestoreOfMissingReturns ==
  Returns /\ lastOp'.op = "restore" /\ Missing(cache', lastOp'.id, lastOp'.k)

\* C7 as stated: restoreVersion for a missing snippet or version fails with
\* not-found, leaves cache, local store and remote store as they were and
\* issues no remote write.
C7_NotFoundChangesNothing ==
  [][RestoreOfMissingReturns =>
       /\ lastOp'.status = "notfound"
       /\ lastOp'.io.put = 0
       /\ UNCHANGED <<cache, local, remote, put, syncInProgress>>]_vars

\* C7 as amended: restoreVersion for a missing snippet or version fails with
\* not-found and issues no remote write; the remote store is unchanged, and
\* the cache and the local store are unchanged when the cache was populated,
\* and otherwise hold what getAllSnippets populates them with.
C7_NotFoundOnlyPopulates ==
  [][RestoreOfMissingReturns =>
       /\ lastOp'.status = "notfound"
       /\ lastOp'.io.put = 0
       /\ UNCHANGED <<remote, put, syncInProgress>>
       /\ IF cache # NULL
          THEN UNCHANGED <<cache, local>>
          ELSE \/ cache' = remote /\ local' = Stringify(remote)
               \/ cache' = LoadFromLocalStorage(local) /\ local' = local]_vars

\* C7 witness: not-found for an index past the versions of an existing snippet.
C7_Witness ==
  /\ After("restore") /\ lastOp.status = "notfound"
  /\ lastOp.id \in DOMAIN cache
  /\ lastOp.k >= Len(cache[lastOp.id].versions)
  /\ lastOp.io = ZeroIO

\* C8: after deleteSnippet(id) the id is absent from the cache and from what
\* getAllSnippets returns; a save of an absent id creates the snippet with
\* the single version 0 and the current pointer 0.
C8_DeletedThenFresh ==
  /\ After("delete") => lastOp.id \notin DOMAIN cache
  /\ After("getAll") /\ lastOp.prev.op = "delete" =>
       lastOp.coll = cache /\ lastOp.prev.id \notin DOMAIN lastOp.coll
  /\ After("save") /\ lastOp.prev = [op |-> "delete", id |-> lastOp.id] =>
       /\ lastOp.ret.version = 0
       /\ cache[lastOp.id] = Snippet(lastOp.id, <<lastOp.ret>>, 0)

\* C8 witness: a save of the id that the previous call deleted.
C8_Witness ==
  /\ After("save")
  /\ lastOp.prev = [op |-> "delete", id |-> lastOp.id]
  /\ lastOp.pre = NoSnippet

\* The import handler runs its merge and its writes in this step.
ImportRuns(p) ==
  /\ procs[p].pc = "fetch" \/ (procs[p].pc = "idle" /\ calls' # calls)
  /\ \/ procs'[p].pc = "put" /\ procs'[p].op = "import"
     \/ /\ procs'[p].pc = "idle" /\ p = Main
        /\ Returns /\ lastOp'.op = "import" /\ lastOp'.status = "ok"

\* The pasted collection of the import that runs in this step.
Incoming(p) ==
  Parse(IF procs'[p].pc = "put" THEN procs'[p].text ELSE lastOp'.text)

\* The collections getAllSnippets can give the call that runs in this step.
Bases == IF cache # NULL THEN {cache} ELSE {remote, LoadFromLocalStorage(local)}

\* m holds every snippet of inc, and every snippet of c whose id is not in inc.
IsMergeOf(m, c, inc) ==
  /\ DOMAIN m = DOMAIN c \cup DOMAIN inc
  /\ \A id \in DOMAIN inc : m[id] = inc[id]
  /\ \A id \in DOMAIN c \ DOMAIN inc : m[id] = c[id]

\* C9 as stated: an import leaves the merge in the cache and in the local
\* store and pushes it to the remote.
C9_ImportMergesAndPushes ==
  [][\A p \in Procs : ImportRuns(p) =>
       /\ \E c \in Bases : IsMergeOf(cache', c, Incoming(p))
       /\ local' = Stringify(cache')
       /\ put' = <<Request(cache', p)>>]_vars

\* C9 as amended: an import leaves the merge in the cache and in the local
\* store, and pushes it to the remote unless a sync is in progress, in which
\* case nothing is sent.
C9_ImportMergesAndPushesUnlessSyncing ==
  [][\A p \in Procs : ImportRuns(p) =>
       /\ \E c \in Bases : IsMergeOf(cache', c, Incoming(p))
       /\ local' = Stringify(cache')
       /\ IF syncInProgress
          THEN UNCHANGED <<put, remote, syncInProgress>>
          ELSE put' = <<Request(cache', p)>>]_vars

\* C9 witness: an import of snippet a was pushed, and snippet b, which was
\* not in the import, is still there.
C9_Witness ==
  /\ After("import") /\ lastOp.status = "ok" /\ lastOp.io.put = 1
  /\ DOMAIN Parse(lastOp.text) = {"a"}
  /\ DOMAIN cache = {"a", "b"}
  /\ cache["a"] = Parse(lastOp.text)["a"]
  /\ remote = cache

\* C10: a getAllSnippets call on a populated cache returns the cache, the
\* same collection the call before it returned, and touches no store.
C10_CacheHitDoesNoIO ==
  [][cache # NULL /\ Returns /\ lastOp'.op = "getAll" =>
       /\ lastOp'.coll = cache
       /\ lastOp'.io = ZeroIO
       /\ lastOp.op = "getAll" => lastOp'.coll = lastOp.coll
       /\ UNCHANGED <<cache, local, remote, put, syncInProgress>>]_vars

\* C10 witness: two getAllSnippets calls in a row on a cache with snippets.
C10_Witness ==
  /\ After("getAll") /\ lastOp.prev.op = "getAll"
  /\ lastOp.io = ZeroIO
  /\ lastOp.coll # EmptyCollection

\* The first call of the session was getAllSnippets and has returned.
FirstGetAll == After("getAll") /\ lastOp.io.fetch = 1

\* C11: when the cache is unpopulated and the remote fetch fails,
\* getAllSnippets returns without an error the collection the local store
\* holds (the empty collection for a text that does not parse), that
\* collection is the cache, and the call made one fetch only.
C11_FailedFetchFallsBackToLocal ==
  FirstGetAll /\ lastOp.io.failed = 1 =>
    /\ lastOp.status = "ok"
    /\ lastOp.coll = IF IsJson(local) THEN Parse(local) ELSE EmptyCollection
    /\ cache = lastOp.coll
    /\ lastOp.io.lread = 1 /\ lastOp.io.lwrite = 0 /\ lastOp.io.put = 0
    /\ populating.fetches = 1

\* C11 witness: the fetch failed and the call returned the stored snippets,
\* which are not what the remote holds.
C11_Witness ==
  /\ FirstGetAll /\ lastOp.io.failed = 1
  /\ lastOp.coll # EmptyCollection
  /\ lastOp.coll # remote
  /\ remote # EmptyCollection

\* C12: when the cache is unpopulated and the remote fetch succeeds,
\* getAllSnippets returns the fetched collection, that collection is the
\* cache and the local store holds it in place of what it held, and the
\* local store was not read.
C12_FetchedIsAdoptedAndMirrored ==
  FirstGetAll /\ lastOp.io.failed = 0 =>
    /\ lastOp.status = "ok"
    /\ lastOp.coll = remote
    /\ cache = remote
    /\ local = Stringify(remote)
    /\ IsJson(local) /\ Parse(local) = remote
    /\ lastOp.io.lread = 0 /\ lastOp.io.lwrite = 1 /\ lastOp.io.put = 0

\* C12 witness: the fetch gave the snippets of the remote, which replaced
\* the stored text of the earlier session.
C12_Witness ==
  /\ FirstGetAll /\ lastOp.io.failed = 0
  /\ remote # EmptyCollection
  /\ local \notin StoredTexts

\* C13: the cache is populated at most once: whatever calls are started
\* while it is unpopulated, at most one GET is sent and the cache is assigned
\* from a store at most once.
C13_PopulatedAtMostOnce ==
  populating.fetches <= 1 /\ populating.assigned <= 1

\* The last version of the snippet id in the collection coll.
LastVersion(coll, id) ==
  IF id \in DOMAIN coll
  THEN At(coll[id].versions, Len(coll[id].versions) - 1)
  ELSE NoVersion

\* C14: when saveSnippet has returned, the local store holds the version
\* the call appended, also while the remote push of the call is pending; the
\* request of that push carries the version too.
C14_LocalHoldsTheSaveOnReturn ==
  After("save") =>
    /\ IsJson(local)
    /\ LastVersion(Parse(local), lastOp.id) = lastOp.ret
    /\ lastOp.ret.html = lastOp.data.html
    /\ LastVersion(cache, lastOp.id) = lastOp.ret
    /\ lastOp.io.put = 1 /\ put # NoPut =>
         LastVersion(Parse(put[1].body), lastOp.id) = lastOp.ret

\* C14 witness: saveSnippet has returned, its push is pending, and the
\* remote does not hold the version yet.
C14_Witness ==
  /\ After("save") /\ lastOp.io.put = 1 /\ put # NoPut
  /\ LastVersion(Parse(local), lastOp.id) = lastOp.ret
  /\ LastVersion(remote, lastOp.id) # lastOp.ret

\* The push of the call that returned last is over and the remote does not
\* hold what it carried: the push failed.
PushOfLastCallFailed ==
  /\ Quiet /\ lastOp.io.put = 1 /\ put = NoPut
  /\ remote # cache

\* C15: a push of saveSnippet that failed is not raised to the caller and
\* undoes nothing: the call returned the new version without an error, and
\* the cache and the local store still hold that version.
C15_FailedPushOfSaveIsAbsorbed ==
  lastOp.op = "save" =>
    /\ lastOp.status = "ok"
    /\ lastOp.ret # NoVersion
    /\ PushOfLastCallFailed =>
         /\ LastVersion(cache, lastOp.id) = lastOp.ret
         /\ local = Stringify(cache)

\* C15 witness: the push of a save failed, and the saved version is in the
\* cache and in the local store but not in the remote.
C15_Witness ==
  /\ lastOp.op = "save" /\ PushOfLastCallFailed
  /\ LastVersion(cache, lastOp.id) = lastOp.ret
  /\ LastVersion(Parse(local), lastOp.id) = lastOp.ret
  /\ LastVersion(remote, lastOp.id) # lastOp.ret

\* C16: at most one PUT request of saveToAPI is in flight, and the flag is
\* set exactly while one is.
C16_OnePushInFlight ==
  /\ Len(put) <= 1
  /\ syncInProgress <=> put # NoPut

\* C16 witness: a push is in flight and a deleteSnippet that ran meanwhile
\* wrote the local store and sent nothing.
C16_Witness ==
  /\ Len(put) = 1
  /\ lastOp.op = "delete" /\ lastOp.io.lwrite = 1 /\ lastOp.io.put = 0
  /\ put[1].body # Stringify(cache)

\* A PUT request is answered in this step.
PutAnswered == Len(put') < Len(put)

\* C17: a push requested while another is in flight is skipped and not
\* queued: the step sends nothing and leaves the flag set, the call that
\* asked for it returns without an error, and the answer to the push in
\* flight sends no request in its place.
C17_SkippedNotQueued ==
  [][/\ syncInProgress /\ ~PutAnswered =>
          /\ UNCHANGED <<put, remote>>
          /\ syncInProgress'
          /\ \A p \in Procs : procs'[p].pc = "put" => procs[p].pc = "put"
          /\ Returns /\ lastOp'.op \in {"save", "delete", "import"} =>
               lastOp'.status = "ok" /\ lastOp'.io.put = 0
          /\ Returns /\ lastOp'.op = "restore" =>
               lastOp'.status \in {"ok", "notfound"} /\ lastOp'.io.put = 0
     /\ PutAnswered => Len(put') = Len(put) - 1 /\ put' = NoPut]_vars

\* C17 witness: a deleteSnippet made during the push of a save has returned
\* without error, the push has been answered since, and nothing is in flight:
\* the remote still holds the deleted snippet.
C17_Witness ==
  /\ lastOp.op = "delete" /\ lastOp.status = "ok"
  /\ lastOp.io.lwrite = 1 /\ lastOp.io.put = 0
  /\ Quiet /\ put = NoPut /\ ~syncInProgress
  /\ lastOp.id \in DOMAIN remote
  /\ lastOp.id \notin DOMAIN cache

\* C18: the answer to a push, good or bad, releases the flag; a saveSnippet
\* that runs with the flag released sends a PUT with the whole cache as it is
\* after the save; and when every PUT is answered in the end, a flag that is
\* set is released in the end.
C18_PushReleasesTheFlag ==
  /\ [][PutAnswered => ~syncInProgress']_vars
  /\ [][~syncInProgress /\ Returns /\ lastOp'.op = "save" =>
          /\ put' = <<Request(cache', NoOwner)>>
          /\ lastOp'.io.put = 1
          /\ LastVersion(Parse(put'[1].body), lastOp'.id) = lastOp'.ret]_vars
  /\ syncInProgress ~> ~syncInProgress

\* C18 witness: two saves of one snippet were the only calls, the push of
\* the first failed (the remote holds nothing), and the second save has
\* sent a push of its own that carries both versions.
C18_Witness ==
  /\ calls = 2 /\ lastOp.op = "save" /\ lastOp.io.put = 1
  /\ remote = EmptyCollection
  /\ Len(put) = 1 /\ put[1].body = Stringify(cache)
  /\ lastOp.id \in DOMAIN cache /\ Len(cache[lastOp.id].versions) = 2

\* A deleteSnippet returns without an error in this step.
DeleteReturnsOk ==
  Returns /\ lastOp'.op = "delete" /\ lastOp'.status = "ok"

\* The step is the good answer to a PUT that a deleteSnippet awaits, and the
\* remote then holds the collection the request carried, without the id.
DeletePushCompleted ==
  /\ PutAnswered
  /\ \E i \in 1..Len(put) :
       /\ put[i].owner \in Procs
       /\ procs[put[i].owner].op = "delete"
       /\ procs[put[i].owner].id = lastOp'.id
       /\ remote' = Parse(put[i].body)
  /\ lastOp'.id \notin DOMAIN remote'

\* C19 as stated: whenever deleteSnippet returns without an error, a remote
\* write of a collection without the id has completed.
C19_DeleteHasPushed ==
  [][DeleteReturnsOk => DeletePushCompleted]_vars

\* C19 as amended: whenever deleteSnippet returns without an error, either a
\* remote write of a collection without the id has completed, or another
\* push was in flight when the call asked for its own, which was skipped:
\* nothing was sent and the remote is as it was.
C19_DeleteHasPushedUnlessSyncing ==
  [][DeleteReturnsOk =>
       \/ DeletePushCompleted
       \/ /\ syncInProgress /\ ~PutAnswered
          /\ lastOp'.io.put = 0
          /\ UNCHANGED <<put, remote, syncInProgress>>]_vars

\* C19 witness: a deleteSnippet of a snippet the remote held has returned
\* without an error after its own push, and the remote no longer holds it.
C19_Witness ==
  /\ lastOp.op = "delete" /\ lastOp.status = "ok" /\ lastOp.io.put = 1
  /\ lastOp.pre # NoSnippet
  /\ lastOp.id \notin DOMAIN remote
  /\ remote # EmptyCollection

\* C20: when the remote write of deleteSnippet, restoreVersion or the import
\* fails, the call ends with an error.
C20_FailedPushIsThrown ==
  lastOp.op \in {"delete", "restore", "import"} /\ PushOfLastCallFailed =>
    lastOp.status = "error"

\* C20 witness: a restoreVersion moved the pointer, its push failed, and the
\* call ended with an error.
C20_Witness ==
  /\ lastOp.op = "restore" /\ PushOfLastCallFailed
  /\ lastOp.status = "error"
  /\ lastOp.pre.currentVersion # lastOp.k

\* C21: when deleteSnippet(id) or restoreVersion(id, k) has ended with an
\* error (not-found, or a remote write that failed), the snippet id is in the
\* cache as it was before the call: not deleted, its pointer not moved.
C21_FailureLeavesTheEntry ==
  /\ Quiet /\ lastOp.op \in {"delete", "restore"}
  /\ lastOp.status \in {"error", "notfound"}
  => Get(cache, lastOp.id) = lastOp.pre

\* The regions whose content changes in this step.
Mutated == {id \in Ids : capture'.content[id] # capture.content[id]}

\* The timer of the debounced save expires in this step.
TimerExpires == capture.timeout = 0 /\ capture'.timeout = NoTimer

\* The saveSnippet call made in this step: it waits for its GET, or it has
\* returned already.
SaveIssued ==
  IF \E p \in Procs : procs[p].pc = "idle" /\ procs'[p].pc = "fetch"
  THEN LET p == CHOOSE q \in Procs : procs[q].pc = "idle" /\ procs'[q].pc = "fetch"
       IN [op |-> procs'[p].op, id |-> procs'[p].id, data |-> procs'[p].data]
  ELSE [op |-> lastOp'.op, id |-> lastOp'.id, data |-> lastOp'.data]

\* A save of snippet id is pending on the timer.
PendingFor(id) == capture.timeout # NoTimer /\ capture.args = id

C23_RegionsDebounceIndependently ==
  [][\A r \in Mutated : \A a \in Ids \ {r} :
       PendingFor(a) => PendingFor(a)' /\ capture'.timeout = capture.timeout]_vars

\* C28: a mutation of a watched region schedules no save while autoSave is
\* false, and schedules one while it is true.
C28_AutoSaveGatesCapture ==
  [][\A r \in Mutated :
       capture.observing =>
         IF capture.autoSave
         THEN PendingFor(r)' /\ capture'.timeout = AutoSaveDelay
         ELSE capture'.timeout = capture.timeout /\ capture'.args = capture.args]_vars

\* C24: every snippet of the cache has at most maxVersionHistory versions,
\* the limit as it is set now.
C24_WithinTheCap ==
  \A snippet \in Cached : Len(snippet.versions) <= maxVersionHistory

\* C25: loading the local store raises no error: when there is no text,
\* the text does not parse or the read fails, getAllSnippets returns the
\* empty collection without an error and the cache is that collection.
C25_LocalLoadFailsSoft ==
  /\ FirstGetAll /\ lastOp.io.failed = 1
  /\ local \in {Absent, Garbage, Unreadable}
  => /\ lastOp.status = "ok"
     /\ lastOp.io.lread = 1
     /\ lastOp.coll = EmptyCollection
     /\ cache = EmptyCollection

\* C25 witness: the fetch failed, the stored text does not parse, and the
\* call returned the empty collection although the remote holds a snippet.
C25_Witness ==
  /\ FirstGetAll /\ lastOp.io.failed = 1 /\ lastOp.io.lread = 1
  /\ local = Garbage
  /\ cache = EmptyCollection /\ lastOp.status = "ok"
  /\ remote # EmptyCollection

\* C26: a write to localStorage that fails is swallowed: the saveSnippet
\* that made it returns without an error the version it appended, the cache
\* holds that version as the last of the snippet, and the push is issued as
\* after a write that succeeded (one PUT of the new cache, unless a sync is
\* in progress).
C26_LocalWriteFailureIsSwallowed ==
  [][Returns /\ lastOp'.op = "save" /\ local' # Stringify(cache')
     => /\ lastOp'.status = "ok"
        /\ lastOp'.io.lwrite >= 1
        /\ lastOp'.id \in DOMAIN cache'
        /\ lastOp'.ret = LastVersion(cache', lastOp'.id)
        /\ lastOp'.ret.html = lastOp'.data.html
        /\ put' = IF syncInProgress THEN put
                  ELSE Append(put, Request(cache', NoOwner))]_vars

\* C26 witness: a save returned its version and sent its PUT while the
\* stored text is not the text of the cache.
C26_Witness ==
  /\ After("save") /\ lastOp.status = "ok"
  /\ local # Stringify(cache)
  /\ lastOp.ret = LastVersion(cache, lastOp.id)
  /\ lastOp.io.put = 1 /\ Len(put) = 1 /\ Parse(put[1].body) = cache

\* The items of the translated list whose payload parses.
Parsable ==
  { i \in DOMAIN response.items :
      /\ response.items[i].customContent # Absent
      /\ IsJson(response.items[i].customContent) }

\* C27: the translation of an item list keeps exactly the items whose
\* payload parses: the ids of the result are the ids of those items, each
\* with the snippet its payload parses to; an item without payload or with
\* a payload that does not parse is absent.
C27_KeepsExactlyTheParsableItems ==
  response.parsed =>
    /\ DOMAIN response.snippets = {response.items[i].id : i \in Parsable}
    /\ \A i \in Parsable :
         response.snippets[response.items[i].id]
           = ParseSnippet(response.items[i].customContent)

\* C27 witness: a list with a payload that does not parse and one that
\* does was translated; the first item is absent, the second is there.
C27_Witness ==
  /\ response.parsed
  /\ \E i \in DOMAIN response.items : \E j \in Parsable :
       /\ response.items[i].customContent = Garbage
       /\ response.items[i].id \notin DOMAIN response.snippets
       /\ response.items[j].id \in DOMAIN response.snippets
       /\ response.snippets[response.items[j].id].id # response.items[j].id

\* Both calls of the pair have returned.
BothReturned == Quiet /\ calls = 2

\* The collection holds what both calls of the pair wrote: the version "B"
\* saved to 'b', and for 'a' the saved version "B" or the imported "C".
HoldsBoth(coll) ==
  /\ LastVersion(coll, "b").html = "B"
  /\ LastVersion(coll, "a").html \in {"B", "C"}

\* C29: no update is lost to interleaving: once two interleaved calls on
\* different ids (two saves, or a save and an import) have returned, the
\* cache and the local store hold the versions of both, also when the calls
\* started on an unpopulated cache.
C29_NoUpdateIsLost ==
  BothReturned => HoldsBoth(cache) /\ IsJson(local) /\ HoldsBoth(Parse(local))

\* The ledger new is the ledger old with versions dropped from the front
\* only, and at most one version appended: the versions that stay are the
\* same, in number, content and author.
Kept(old, new) ==
  \E k \in 0..Len(old) : \E n \in {0, 1} :
    /\ Len(new) = Len(old) - k + n
    /\ \A i \in 1..(Len(old) - k) : new[i] = old[k + i]

\* The snippet is one an import brings.
Imported(snippet) ==
  \E text \in ImportTexts :
    /\ IsJson(text)
    /\ snippet.id \in DOMAIN Parse(text)
    /\ snippet = Parse(text)[snippet.id]

\* C30: a recorded version is immutable: in every step, a snippet that
\* stays in the cache keeps its versions as they are, except for versions
\* trimmed from the front and one appended, unless an import replaced the
\* snippet.
C30_RecordedVersionsAreImmutable ==
  [][cache # NULL /\ cache' # NULL
       => \A id \in DOMAIN cache \cap DOMAIN cache' :
            \/ Kept(cache[id].versions, cache'[id].versions)
            \/ Imported(cache'[id])]_vars

\* The call r is a saveSnippet, restoreVersion or deleteSnippet on id.
Acts(r, id) == r.op \in {"save", "restore", "delete"} /\ r.id = id

\* This step is the work on the collection of such a call on id: the call
\* is made on a populated cache, or its GET answers.
StepOn(id) ==
  \/ \E p \in Procs :
       procs[p].pc = "fetch" /\ procs'[p].pc # "fetch" /\ Acts(procs[p], id)
  \/ /\ calls' # calls
     /\ \/ \E p \in Procs :
             procs[p].pc = "idle" /\ procs'[p].pc = "put" /\ Acts(procs'[p], id)
        \/ Returns /\ Acts(lastOp', id)

\* C31: saveSnippet, restoreVersion and deleteSnippet on id leave every
\* other snippet of the cache as it was: its versions and its current
\* pointer are the same before and after the work of the call.
C31_OtherSnippetsUnchanged ==
  [][\A id \in Ids :
       StepOn(id) /\ cache # NULL /\ cache' # NULL
         => \A other \in Ids \ {id} : Get(cache', other) = Get(cache, other)]_vars

\* C32: while the writes to localStorage succeed, the local store holds
\* the cache: once the cache is populated, and after every saveSnippet,
\* deleteSnippet, restoreVersion, import and clear-all, loading the stored
\* text gives a collection equal to the cache.
C32_LocalHoldsTheCache ==
  cache # NULL => LoadFromLocalStorage(local) = cache

\* C32 witness: restoreVersion has moved the pointer of a snippet with two
\* versions, and the stored text is the text of that cache.
C32_Witness ==
  /\ After("restore") /\ lastOp.status = "ok"
  /\ lastOp.id \in DOMAIN cache
  /\ Len(cache[lastOp.id].versions) >= 2
  /\ cache[lastOp.id].currentVersion = 0
  /\ local = Stringify(cache)

\* The requests in flight after this step are those before it, without
\* the one that was answered or with the one that was sent.
Answers == \E i \in 1..Len(put) :
             put' = SubSeq(put, 1, i - 1) \o SubSeq(put, i + 1, Len(put))
Sends == Len(put') = Len(put) + 1 /\ SubSeq(put', 1, Len(put)) = put

\* C33: every remote write carries the whole cache of the moment the push
\* was issued: a request that is sent has the cache of that moment as its
\* body, a request in flight keeps its body whatever happens to the cache,
\* and the remote store changes only to the body of a request in flight;
\* so what the remote holds, once written, is one earlier state of the
\* cache.
C33_RemoteIsAnEarlierCache ==
  [][/\ put' # put => Answers \/ (Sends /\ Parse(put'[Len(put')].body) = cache')
     /\ remote' # remote => \E i \in 1..Len(put) : remote' = Parse(put[i].body)]_vars

\* C33 witness: the remote was written, no request is in flight, and the
\* cache has moved on since the state the remote holds.
C33_Witness ==
  /\ remote \notin InitRemotes
  /\ cache # NULL /\ remote # cache
  /\ put = NoPut /\ Quiet

\* C34: a version saveSnippet has returned survives a restart of the
\* session: the first getAllSnippets of the new session returns a
\* collection in which that version is the last of its snippet, whatever
\* became of the push of the save.
C34_SavedVersionSurvivesRestart ==
  [][Returns /\ lastOp.op = "save" /\ lastOp'.op = "getAll"
       => LastVersion(lastOp'.coll, lastOp.id) = lastOp.ret]_vars

\* C35: clear-all empties the cache and the local store and sends
\* nothing to the remote; a getAllSnippets that follows it returns the empty
\* collection without a fetch, and neither step changes what the remote
\* holds or the requests in flight.
C35_ClearAllIsLocal ==
  [][/\ Returns /\ lastOp'.op = "clear"
        => /\ cache' = EmptyCollection /\ local' = Absent
           /\ remote' = remote /\ put' = put
     /\ Returns /\ lastOp.op = "clear" /\ lastOp'.op = "getAll"
        => /\ lastOp'.status = "ok"
           /\ lastOp'.coll = EmptyCollection
           /\ lastOp'.io = ZeroIO
           /\ remote' = remote /\ put' = put]_vars

\* C35 witness: a save of 'b' reached the remote, all data was cleared,
\* and the getAllSnippets after it returned the empty collection without
\* input or output while the remote still holds 'b'.
C35_Witness ==
  /\ After("getAll") /\ lastOp.coll = EmptyCollection /\ lastOp.io = ZeroIO
  /\ cache = EmptyCollection /\ local = Absent
  /\ "b" \in DOMAIN remote
  /\ populating.assigned = 1

====
